---- MODULE Spec2Model ----
(***************************************************************************)
(* Model of the session store, the generation service and the chat turns   *)
(* of AI GENESIS (src/script.js: Ids, Storage, SessionStore, GeminiService *)
(* and GenesisApp of the second IIFE, and the send path of the GenesisApp  *)
(* of the first IIFE, which listens to the same composer form).            *)
(*                                                                         *)
(* Encoding of JavaScript values                                           *)
(*   ids         integers: Undef (-1) is a missing field, 0 is the empty   *)
(*               string, 1..MaxInputId are caller-supplied ids, and        *)
(*               GenId(n) is the n-th value produced by Ids.uid            *)
(*   titles      sequences of one-character strings; <<>> is '' or missing *)
(*   timestamps  naturals compared as the ISO strings compare; 0 is a      *)
(*               missing field                                             *)
(*   messages    sequences of message records; NotArray stands for any     *)
(*               value that fails Array.isArray                            *)
(*   JS text     tagged records: JsUndef, JsNull, JsStr(s)                 *)
(*   exceptions  an operation that raises leaves the state as it was and   *)
(*               records threw = TRUE in last                              *)
(*   settings    temperature in hundredths                                 *)
(***************************************************************************)
EXTENDS Integers, Sequences, FiniteSets, TLC

VARIABLES stSessions, stActive, memActive, clock, nextUid, budget, last,
          apiKey, legacyKey, typing, calls, requests, appSettings, storedKey

vars == <<stSessions, stActive, memActive, clock, nextUid, budget, last,
          apiKey, legacyKey, typing, calls, requests, appSettings, storedKey>>

chat == <<apiKey, legacyKey, typing, calls, requests, appSettings, storedKey>>

(* ---------------------------------------------------------------------- *)
(* Bounds                                                                  *)
(* ---------------------------------------------------------------------- *)
MaxSteps == 2
MaxInputId == 2
MaxClock == 2
MaxLimit == 4
MaxMsgs == 3
LongTitle == 200

(* ---------------------------------------------------------------------- *)
(* Program constants                                                       *)
(* ---------------------------------------------------------------------- *)
TitleMax == 80
Undef == -1
NullId == -2

Min(a, b) == IF a < b THEN a ELSE b
Max(a, b) == IF a > b THEN a ELSE b

Falsy(v) == v <= 0

GenId(n) == MaxInputId + 1 + n

TitleSession == <<"S", "e", "s", "s", "i", "o", "n">>
TitleNewSession == <<"N", "e", "w", " ">> \o TitleSession
TitleOperatorSession == <<"O", "p", "e", "r", "a", "t", "o", "r", " ">> \o TitleSession

Chars == <<"a", "b", "c">>
TitleOf(n) == [i \in 1..n |-> Chars[(i % 3) + 1]]

JsUndef == [t |-> "undef", v |-> ""]
JsNull == [t |-> "null", v |-> ""]
JsStr(s) == [t |-> "str", v |-> s]

NotArray == <<[id |-> Undef, role |-> "not-an-array", text |-> "", ts |-> 0]>>
IsArray(m) == m # NotArray

(* a null entry of the persisted array: s?.id is undefined, s.id throws *)
NullEntry ==
  [id |-> NullId, title |-> <<>>, createdAt |-> 0, updatedAt |-> 0, messages |-> NotArray]

(* ---------------------------------------------------------------------- *)
(* Ids, Storage                                                            *)
(* ---------------------------------------------------------------------- *)
RawAbsent == [t |-> "absent", v |-> <<>>]
RawEmpty == [t |-> "empty", v |-> <<>>]
RawBadJson == [t |-> "badjson", v |-> <<>>]
RawObject ==
  [t |-> "object",
   v |-> <<[id |-> 1, title |-> <<>>, createdAt |-> 0, updatedAt |-> 0, messages |-> <<>>]>>]
RawArray(a) == [t |-> "array", v |-> a]

jsonParseThrows(raw) == raw.t = "badjson"

safeJsonParse(raw, fallback) ==
  IF jsonParseThrows(raw) THEN RawArray(fallback) ELSE raw

(* the catch block absorbs what JSON.parse throws *)
safeJsonParseRaises(raw) == FALSE

getJson(raw, fallback) ==
  IF raw.t \in {"absent", "empty"} THEN RawArray(fallback) ELSE safeJsonParse(raw, fallback)

getJsonRaises(raw) ==
  IF raw.t \in {"absent", "empty"} THEN FALSE ELSE safeJsonParseRaises(raw)

(* ---------------------------------------------------------------------- *)
(* SessionStore                                                            *)
(* ---------------------------------------------------------------------- *)
loadAllSkipsArrayCheck(raw) ==
  LET sessions == getJson(raw, <<>>)
  IN sessions.v

loadAll(raw) ==
  LET sessions == getJson(raw, <<>>)
  IN IF sessions.t # "array" THEN <<>> ELSE sessions.v

loadAllRaises(raw) == getJsonRaises(raw)

saveAll(sessions) == RawArray(sessions)

ensureShapeTouchesUpdatedAt(s, now, uid) ==
  [id |-> IF Falsy(s.id) THEN GenId(uid) ELSE s.id,
   title |-> IF s.title = <<>> THEN TitleSession ELSE s.title,
   createdAt |-> IF s.createdAt = 0 THEN now ELSE s.createdAt,
   updatedAt |-> now,
   messages |-> IF IsArray(s.messages) THEN s.messages ELSE <<>>]

ensureShape(s, now, uid) ==
  [id |-> IF Falsy(s.id) THEN GenId(uid) ELSE s.id,
   title |-> IF s.title = <<>> THEN TitleSession ELSE s.title,
   createdAt |-> IF s.createdAt = 0 THEN now ELSE s.createdAt,
   updatedAt |-> IF s.updatedAt = 0 THEN now ELSE s.updatedAt,
   messages |-> IF IsArray(s.messages) THEN s.messages ELSE <<>>]

createNewSession(title, now, uid) ==
  [id |-> GenId(uid),
   title |-> IF title = <<>> THEN TitleNewSession ELSE title,
   createdAt |-> now,
   updatedAt |-> now,
   messages |-> <<>>]

findIndex(all, id) ==
  IF \E i \in 1..Len(all) : all[i].id = id
  THEN CHOOSE i \in 1..Len(all) :
         /\ all[i].id = id
         /\ \A j \in 1..(i - 1) : all[j].id # id
  ELSE 0

(* find and findIndex read s.id of every entry up to the first match *)
findThrows(all, id) ==
  \E i \in 1..Len(all) :
    /\ all[i] = NullEntry
    /\ \A j \in 1..(i - 1) : all[j].id # id

(* filter reads s.id of every entry *)
filterThrows(all) == \E i \in 1..Len(all) : all[i] = NullEntry

upsertSessionAppendsOnMatch(raw, session, now, uid) ==
  LET all == loadAll(raw)
      shaped == ensureShape(session, now, uid)
      idx == findIndex(all, shaped.id)
  IN [sessions |-> saveAll(IF idx >= 1 THEN Append(all, shaped) ELSE <<shaped>> \o all),
      ret |-> shaped]

upsertSessionMovesToFront(raw, session, now, uid) ==
  LET all == loadAll(raw)
      shaped == ensureShape(session, now, uid)
  IN [sessions |-> saveAll(<<shaped>> \o SelectSeq(all, LAMBDA s : s.id # shaped.id)),
      ret |-> shaped]

upsertSession(raw, session, now, uid) ==
  LET all == loadAll(raw)
      shaped == ensureShape(session, now, uid)
      idx == findIndex(all, shaped.id)
  IN [sessions |-> saveAll(IF idx >= 1 THEN [all EXCEPT ![idx] = shaped] ELSE <<shaped>> \o all),
      ret |-> shaped]

upsertSessionRaises(raw, session, now, uid) ==
  findThrows(loadAll(raw), ensureShape(session, now, uid).id)

deleteAllSessions == [sessions |-> saveAll(<<>>), active |-> 0]

deleteOneReadsUnfiltered(raw, active, id) ==
  LET all == SelectSeq(loadAll(raw), LAMBDA s : s.id # id)
      old == loadAll(raw)
  IN [sessions |-> saveAll(all),
      active |-> IF active = id
                 THEN (IF Len(old) >= 1 /\ ~Falsy(old[1].id) THEN old[1].id ELSE 0)
                 ELSE active,
      ret |-> all]

deleteOne(raw, active, id) ==
  LET all == SelectSeq(loadAll(raw), LAMBDA s : s.id # id)
  IN [sessions |-> saveAll(all),
      active |-> IF active = id
                 THEN (IF Len(all) >= 1 /\ ~Falsy(all[1].id) THEN all[1].id ELSE 0)
                 ELSE active,
      ret |-> all]

deleteOneRaises(raw) == filterThrows(loadAll(raw))

getById(raw, id, now, uid) ==
  LET all == loadAll(raw)
      idx == findIndex(all, id)
  IN IF idx >= 1 THEN <<ensureShape(all[idx], now, uid)>> ELSE <<>>

getByIdRaises(raw, id) == findThrows(loadAll(raw), id)

slice(t, from, to) == SubSeq(t, from + 1, Min(Len(t), to))

renameNoTruncate(raw, id, newTitle, now, uid) ==
  LET got == getById(raw, id, now, uid)
  IN IF got = <<>> THEN [sessions |-> raw, ret |-> <<>>]
     ELSE LET sess == [got[1] EXCEPT
                         !.title = IF newTitle = <<>> THEN TitleSession ELSE newTitle,
                         !.updatedAt = now]
              up == upsertSession(raw, sess, now, uid + 1)
          IN [sessions |-> up.sessions, ret |-> <<up.ret>>]

rename(raw, id, newTitle, now, uid) ==
  LET got == getById(raw, id, now, uid)
  IN IF got = <<>> THEN [sessions |-> raw, ret |-> <<>>]
     ELSE LET sess == [got[1] EXCEPT
                         !.title = slice(IF newTitle = <<>> THEN TitleSession ELSE newTitle,
                                         0, TitleMax),
                         !.updatedAt = now]
              up == upsertSession(raw, sess, now, uid + 1)
          IN [sessions |-> up.sessions, ret |-> <<up.ret>>]

renameRaises(raw, id) == getByIdRaises(raw, id)

shapeMessageKeepsRole(message, now, uid) ==
  [id |-> IF Falsy(message.id) THEN GenId(uid) ELSE message.id,
   role |-> IF message.role.t = "str" THEN message.role.v ELSE "user",
   text |-> IF message.text.t = "str" THEN message.text.v ELSE "",
   ts |-> IF message.ts = 0 THEN now ELSE message.ts]

shapeMessage(message, now, uid) ==
  [id |-> IF Falsy(message.id) THEN GenId(uid) ELSE message.id,
   role |-> IF message.role = JsStr("assistant") THEN "assistant" ELSE "user",
   text |-> IF message.text.t = "str" THEN message.text.v ELSE "",
   ts |-> IF message.ts = 0 THEN now ELSE message.ts]

addMessageCreatesMissing(raw, sessionId, message, now, uid) ==
  LET got == getById(raw, sessionId, now, uid)
      base == IF got = <<>>
              THEN ensureShape([id |-> sessionId, title |-> <<>>, createdAt |-> 0,
                                updatedAt |-> 0, messages |-> <<>>], now, uid)
              ELSE got[1]
      shaped == shapeMessage(message, now, uid + 1)
      sess == [base EXCEPT !.messages = Append(base.messages, shaped), !.updatedAt = now]
      up == upsertSession(raw, sess, now, uid + 2)
  IN [sessions |-> up.sessions, ret |-> <<up.ret>>]

addMessage(raw, sessionId, message, now, uid) ==
  LET got == getById(raw, sessionId, now, uid)
  IN IF got = <<>> THEN [sessions |-> raw, ret |-> <<>>]
     ELSE LET shaped == shapeMessage(message, now, uid + 1)
              sess == [got[1] EXCEPT
                         !.messages = Append(got[1].messages, shaped),
                         !.updatedAt = now]
              up == upsertSession(raw, sess, now, uid + 2)
          IN [sessions |-> up.sessions, ret |-> <<up.ret>>]

addMessageRaises(raw, sessionId) == getByIdRaises(raw, sessionId)

getRollingMemoryFromStart(session, limit) ==
  LET msgs == IF IsArray(session.messages) THEN session.messages ELSE <<>>
      part == SubSeq(msgs, 1, Min(Len(msgs), limit))
  IN [i \in 1..Len(part) |-> [role |-> part[i].role, text |-> part[i].text]]

getRollingMemory(session, limit) ==
  LET msgs == IF IsArray(session.messages) THEN session.messages ELSE <<>>
      part == slice(msgs, Max(0, Len(msgs) - limit), Len(msgs))
  IN [i \in 1..Len(part) |-> [role |-> part[i].role, text |-> part[i].text]]

(* ---------------------------------------------------------------------- *)
(* GenesisApp: the session handlers                                        *)
(* ---------------------------------------------------------------------- *)
shapeAll(all, now, uid) ==
  [i \in 1..Len(all) |-> ensureShape(all[i], now, uid + i - 1)]

ensureAtLeastOneSessionKeepsPointer(raw, active, now, uid) ==
  LET all == shapeAll(loadAll(raw), now, uid)
      created == createNewSession(TitleOperatorSession, now, uid)
  IN IF Len(all) = 0
     THEN [sessions |-> saveAll(<<created>>), active |-> active, mem |-> created.id]
     ELSE IF Falsy(active) \/ ~(\E i \in 1..Len(all) : all[i].id = active)
          THEN [sessions |-> raw, active |-> all[1].id, mem |-> all[1].id]
          ELSE [sessions |-> raw, active |-> active, mem |-> active]

ensureAtLeastOneSession(raw, active, now, uid) ==
  LET activeId == active
      all == shapeAll(loadAll(raw), now, uid)
      created == createNewSession(TitleOperatorSession, now, uid)
  IN IF Len(all) = 0
     THEN [sessions |-> saveAll(<<created>>), active |-> created.id, mem |-> created.id]
     ELSE IF Falsy(activeId) \/ ~(\E i \in 1..Len(all) : all[i].id = activeId)
          THEN [sessions |-> raw, active |-> all[1].id, mem |-> all[1].id]
          ELSE [sessions |-> raw, active |-> active, mem |-> activeId]

ensureAtLeastOneSessionRaises(raw, now, uid) ==
  IF Len(loadAll(raw)) = 0
  THEN upsertSessionRaises(raw, createNewSession(TitleOperatorSession, now, uid), now, uid + 1)
  ELSE FALSE

(* ---------------------------------------------------------------------- *)
(* Inputs                                                                  *)
(* ---------------------------------------------------------------------- *)
Msg1 == [id |-> 1, role |-> "user", text |-> "hi", ts |-> 1]

MsgPool(k) ==
  [id |-> k, role |-> IF k % 2 = 1 THEN "user" ELSE "assistant",
   text |-> IF k % 3 = 0 THEN "" ELSE IF k % 3 = 1 THEN "hi" ELSE "yo", ts |-> 1]

MemorySessions ==
  {[id |-> 1, title |-> TitleSession, createdAt |-> 1, updatedAt |-> 1,
    messages |-> [k \in 1..n |-> MsgPool(k)]] : n \in 0..MaxMsgs}
    \cup {[id |-> 1, title |-> TitleSession, createdAt |-> 1, updatedAt |-> 1,
           messages |-> NotArray]}

FullSession(id) ==
  [id |-> id, title |-> TitleOf(2), createdAt |-> 1, updatedAt |-> 1, messages |-> <<>>]

Candidates ==
  {FullSession(i) : i \in 1..MaxInputId}
    \cup {[FullSession(GenId(0)) EXCEPT !.title = TitleOf(1)],
          [FullSession(1) EXCEPT !.messages = <<Msg1, MsgPool(2)>>],
          [FullSession(1) EXCEPT !.id = Undef],
          [FullSession(1) EXCEPT !.id = 0],
          [FullSession(1) EXCEPT !.title = <<>>],
          [FullSession(1) EXCEPT !.createdAt = 0],
          [FullSession(1) EXCEPT !.updatedAt = 0],
          [FullSession(1) EXCEPT !.messages = NotArray],
          [id |-> Undef, title |-> <<>>, createdAt |-> 0, updatedAt |-> 0,
           messages |-> NotArray]}

TitleInputs == {TitleOf(n) : n \in {0, 2, TitleMax, TitleMax + 1, LongTitle}}

MsgUndefined == [id |-> Undef, role |-> JsUndef, text |-> JsUndef, ts |-> 0]

MessageInputs ==
  {MsgUndefined,
   [id |-> Undef, role |-> JsStr("assistant"), text |-> JsStr("hi"), ts |-> 0],
   [id |-> Undef, role |-> JsStr("user"), text |-> JsStr("yo"), ts |-> 0],
   [id |-> Undef, role |-> JsStr("system"), text |-> JsNull, ts |-> 0],
   [id |-> Undef, role |-> JsStr("assistant"), text |-> JsUndef, ts |-> 0],
   [id |-> 1, role |-> JsStr("user"), text |-> JsStr(""), ts |-> 1]}

StoredIds(raw) == {loadAll(raw)[i].id : i \in 1..Len(loadAll(raw))}

IdArgs(raw) == (0..MaxInputId) \cup (StoredIds(raw) \ {NullId})

(* ---------------------------------------------------------------------- *)
(* Identifiers drawn from Ids.uid by one call of each operation            *)
(* ---------------------------------------------------------------------- *)
UidsShape(s) == IF Falsy(s.id) THEN 1 ELSE 0

UidsShapeAll(all) == IF \E i \in 1..Len(all) : Falsy(all[i].id) THEN Len(all) ELSE 0

UidsEnsure(raw) == IF Len(loadAll(raw)) = 0 THEN 1 ELSE UidsShapeAll(loadAll(raw))

(* ---------------------------------------------------------------------- *)
(* Initial states: the constructor has run init() on the persisted data    *)
(* ---------------------------------------------------------------------- *)
PersistedRecs ==
  {FullSession(1),
   [FullSession(MaxInputId) EXCEPT !.messages = <<Msg1>>],
   [id |-> Undef, title |-> <<>>, createdAt |-> 0, updatedAt |-> 1, messages |-> NotArray],
   NullEntry}

PersistedRaws ==
  {RawAbsent, RawEmpty, RawBadJson, RawObject}
    \cup {RawArray(<<>>)}
    \cup {RawArray(<<a>>) : a \in PersistedRecs}
    \cup {RawArray(<<a, b>>) : a \in PersistedRecs, b \in PersistedRecs}

DefaultSettings == [temperature |-> 40, maxTokens |-> 512]

ChatIdle ==
  /\ appSettings = DefaultSettings
  /\ storedKey = ""
  /\ apiKey = ""
  /\ legacyKey = ""
  /\ typing = FALSE
  /\ calls = <<>>
  /\ requests = <<>>

Constructed(raw, active, steps) ==
  LET r == ensureAtLeastOneSession(raw, active, 1, 0)
  IN /\ stSessions = r.sessions
     /\ stActive = r.active
     /\ memActive = r.mem
     /\ clock = 1
     /\ nextUid = UidsEnsure(raw)
     /\ budget = steps
     /\ last = [op |-> "constructor", preS |-> raw, preA |-> active]

Init == Constructed(RawAbsent, 0, MaxSteps) /\ ChatIdle

InitAny ==
  /\ \E raw \in PersistedRaws, active \in 0..MaxInputId :
       Constructed(raw, active, MaxSteps - 1)
  /\ ChatIdle

(* the page before the constructor runs: localStorage as it was left *)
InitLoad ==
  /\ stSessions \in PersistedRaws
  /\ stActive \in 0..MaxInputId
  /\ memActive = 0
  /\ clock = 1
  /\ nextUid = 0
  /\ budget = MaxSteps
  /\ last = [op |-> "page load", preS |-> stSessions, preA |-> stActive]
  /\ ChatIdle

(* ---------------------------------------------------------------------- *)
(* SessionStore operations                                                 *)
(* ---------------------------------------------------------------------- *)
Step(n) ==
  /\ budget >= 1
  /\ budget' = budget - 1
  /\ nextUid' = nextUid + n
  /\ UNCHANGED chat

Tick ==
  /\ clock < MaxClock
  /\ clock' = clock + 1
  /\ UNCHANGED <<stSessions, stActive, memActive, nextUid, budget, last>>
  /\ UNCHANGED chat

LoadAll ==
  /\ Step(0)
  /\ last' = [op |-> "loadAll", preS |-> stSessions, preA |-> stActive,
              threw |-> loadAllRaises(stSessions), ret |-> loadAll(stSessions)]
  /\ UNCHANGED <<stSessions, stActive, memActive, clock>>

EnsureShapeOp(x) ==
  /\ Step(UidsShape(x))
  /\ last' = [op |-> "ensureShape", x |-> x, now |-> clock,
              ret |-> ensureShape(x, clock, nextUid)]
  /\ UNCHANGED <<stSessions, stActive, memActive, clock>>

UpsertSession(s) ==
  /\ Step(UidsShape(s))
  /\ IF upsertSessionRaises(stSessions, s, clock, nextUid)
     THEN /\ stSessions' = stSessions
          /\ last' = [op |-> "upsertSession", s |-> s, preS |-> stSessions,
                      preA |-> stActive, threw |-> TRUE]
     ELSE LET r == upsertSession(stSessions, s, clock, nextUid)
          IN /\ stSessions' = r.sessions
             /\ last' = [op |-> "upsertSession", s |-> s, preS |-> stSessions,
                         preA |-> stActive, threw |-> FALSE, ret |-> r.ret]
  /\ UNCHANGED <<stActive, memActive, clock>>

DeleteAllSessions ==
  /\ Step(0)
  /\ stSessions' = deleteAllSessions.sessions
  /\ stActive' = deleteAllSessions.active
  /\ last' = [op |-> "deleteAllSessions", preS |-> stSessions, preA |-> stActive]
  /\ UNCHANGED <<memActive, clock>>

DeleteOne(id) ==
  /\ Step(0)
  /\ IF deleteOneRaises(stSessions)
     THEN UNCHANGED <<stSessions, stActive>>
     ELSE LET r == deleteOne(stSessions, stActive, id)
          IN /\ stSessions' = r.sessions
             /\ stActive' = r.active
  /\ last' = [op |-> "deleteOne", id |-> id, preS |-> stSessions, preA |-> stActive,
              threw |-> deleteOneRaises(stSessions)]
  /\ UNCHANGED <<memActive, clock>>

GetByIdOp(id) ==
  /\ Step(0)
  /\ last' = [op |-> "getById", id |-> id, preS |-> stSessions, preA |-> stActive,
              threw |-> getByIdRaises(stSessions, id),
              ret |-> IF getByIdRaises(stSessions, id) THEN <<>>
                      ELSE getById(stSessions, id, clock, nextUid)]
  /\ UNCHANGED <<stSessions, stActive, memActive, clock>>

Rename(id, newTitle) ==
  IF renameRaises(stSessions, id)
  THEN /\ Step(0)
       /\ last' = [op |-> "rename", id |-> id, title |-> newTitle, preS |-> stSessions,
                   preA |-> stActive, threw |-> TRUE, ret |-> <<>>]
       /\ UNCHANGED <<stSessions, stActive, memActive, clock>>
  ELSE LET r == rename(stSessions, id, newTitle, clock, nextUid)
       IN /\ Step(IF r.ret # <<>> /\ Falsy(id) THEN 2 ELSE 0)
          /\ stSessions' = r.sessions
          /\ last' = [op |-> "rename", id |-> id, title |-> newTitle, preS |-> stSessions,
                      preA |-> stActive, threw |-> FALSE, ret |-> r.ret]
          /\ UNCHANGED <<stActive, memActive, clock>>

AddMessage(sessionId, message) ==
  IF addMessageRaises(stSessions, sessionId)
  THEN /\ Step(0)
       /\ last' = [op |-> "addMessage", id |-> sessionId, message |-> message,
                   preS |-> stSessions, preA |-> stActive, threw |-> TRUE, ret |-> <<>>]
       /\ UNCHANGED <<stSessions, stActive, memActive, clock>>
  ELSE LET r == addMessage(stSessions, sessionId, message, clock, nextUid)
       IN /\ Step(IF r.ret # <<>> /\ (Falsy(sessionId) \/ Falsy(message.id)) THEN 3 ELSE 0)
          /\ stSessions' = r.sessions
          /\ last' = [op |-> "addMessage", id |-> sessionId, message |-> message,
                      preS |-> stSessions, preA |-> stActive, threw |-> FALSE, ret |-> r.ret]
          /\ UNCHANGED <<stActive, memActive, clock>>

GetRollingMemory(session, limit) ==
  /\ Step(0)
  /\ last' = [op |-> "getRollingMemory", session |-> session, limit |-> limit,
              ret |-> getRollingMemory(session, limit)]
  /\ UNCHANGED <<stSessions, stActive, memActive, clock>>

(* ---------------------------------------------------------------------- *)
(* GenesisApp operations                                                   *)
(* ---------------------------------------------------------------------- *)
EnsureAtLeastOneSession ==
  /\ Step(UidsEnsure(stSessions))
  /\ IF ensureAtLeastOneSessionRaises(stSessions, clock, nextUid)
     THEN UNCHANGED <<stSessions, stActive, memActive>>
     ELSE LET r == ensureAtLeastOneSession(stSessions, stActive, clock, nextUid)
          IN /\ stSessions' = r.sessions
             /\ stActive' = r.active
             /\ memActive' = r.mem
  /\ last' = [op |-> "ensureAtLeastOneSession", preS |-> stSessions, preA |-> stActive,
              threw |-> ensureAtLeastOneSessionRaises(stSessions, clock, nextUid)]
  /\ UNCHANGED clock

ClearAllSessions ==
  /\ Step(1)
  /\ LET d == deleteAllSessions
         r == ensureAtLeastOneSession(d.sessions, d.active, clock, nextUid)
     IN /\ stSessions' = r.sessions
        /\ stActive' = r.active
        /\ memActive' = r.mem
  /\ last' = [op |-> "clearAllSessions", preS |-> stSessions, preA |-> stActive]
  /\ UNCHANGED clock

CreateAndActivateSession ==
  /\ Step(1)
  /\ LET created == createNewSession(TitleNewSession, clock, nextUid)
     IN IF upsertSessionRaises(stSessions, created, clock, nextUid + 1)
        THEN UNCHANGED <<stSessions, stActive, memActive>>
        ELSE /\ stSessions' = upsertSession(stSessions, created, clock, nextUid + 1).sessions
             /\ stActive' = created.id
             /\ memActive' = created.id
  /\ last' = [op |-> "createAndActivateSession", preS |-> stSessions, preA |-> stActive,
              threw |-> upsertSessionRaises(stSessions,
                          createNewSession(TitleNewSession, clock, nextUid), clock, nextUid + 1)]
  /\ UNCHANGED clock

renderedList(raw, now, uid) == shapeAll(loadAll(raw), now, uid)

SetActiveSession(i) ==
  /\ i \in 1..Len(loadAll(stSessions))
  /\ Step(UidsShapeAll(loadAll(stSessions)))
  /\ LET id == renderedList(stSessions, clock, nextUid)[i].id
     IN /\ stActive' = id
        /\ memActive' = id
        /\ last' = [op |-> "setActiveSession", id |-> id, preS |-> stSessions, preA |-> stActive]
  /\ UNCHANGED <<stSessions, clock>>

DeleteSessionHandler(i) ==
  /\ i \in 1..Len(loadAll(stSessions))
  /\ LET n == UidsShapeAll(loadAll(stSessions))
         id == renderedList(stSessions, clock, nextUid)[i].id
     IN IF deleteOneRaises(stSessions)
        THEN /\ Step(n)
             /\ UNCHANGED <<stSessions, stActive, memActive>>
             /\ last' = [op |-> "deleteSessionHandler", id |-> id, preS |-> stSessions,
                         preA |-> stActive, threw |-> TRUE]
        ELSE LET d == deleteOne(stSessions, stActive, id)
                 r == ensureAtLeastOneSession(d.sessions, d.active, clock, nextUid + n)
             IN /\ Step(n + UidsEnsure(d.sessions))
                /\ stSessions' = r.sessions
                /\ stActive' = r.active
                /\ memActive' = r.mem
                /\ last' = [op |-> "deleteSessionHandler", id |-> id, preS |-> stSessions,
                            preA |-> stActive, threw |-> FALSE]
  /\ UNCHANGED clock

getActiveSession(raw, mem, now, uid) ==
  IF Falsy(mem) THEN <<>> ELSE getById(raw, mem, now, uid)

getActiveSessionRaises(raw, mem) == ~Falsy(mem) /\ getByIdRaises(raw, mem)

RenameActiveSession(name) ==
  IF getActiveSessionRaises(stSessions, memActive)
  THEN /\ Step(0)
       /\ last' = [op |-> "renameActiveSession", title |-> name, preS |-> stSessions,
                   preA |-> stActive, threw |-> TRUE, ret |-> <<>>]
       /\ UNCHANGED <<stSessions, stActive, memActive, clock>>
  ELSE LET active == getActiveSession(stSessions, memActive, clock, nextUid)
           go == active # <<>> /\ name # <<>>
           r == IF go THEN rename(stSessions, active[1].id, name, clock, nextUid + 1)
                ELSE [sessions |-> stSessions, ret |-> <<>>]
       IN /\ Step(0)
          /\ stSessions' = r.sessions
          /\ last' = [op |-> "renameActiveSession", title |-> name, preS |-> stSessions,
                      preA |-> stActive, threw |-> FALSE, ret |-> r.ret]
          /\ UNCHANGED <<stActive, memActive, clock>>

Next ==
  \/ Tick
  \/ \E x \in Candidates : EnsureShapeOp(x)
  \/ \E s \in Candidates : UpsertSession(s)
  \/ DeleteAllSessions
  \/ \E id \in IdArgs(stSessions) : DeleteOne(id)
  \/ \E id \in IdArgs(stSessions) : GetByIdOp(id)
  \/ \E id \in IdArgs(stSessions), t \in TitleInputs : Rename(id, t)
  \/ \E id \in IdArgs(stSessions), m \in MessageInputs : AddMessage(id, m)
  \/ \E s \in MemorySessions, l \in 0..MaxLimit : GetRollingMemory(s, l)
  \/ EnsureAtLeastOneSession
  \/ ClearAllSessions
  \/ CreateAndActivateSession
  \/ \E i \in 1..(MaxSteps + 1) : SetActiveSession(i)
  \/ \E i \in 1..(MaxSteps + 1) : DeleteSessionHandler(i)
  \/ \E t \in TitleInputs : RenameActiveSession(t)

Spec == Init /\ [][Next]_vars

SpecAny == InitAny /\ [][Next]_vars

NextLoad ==
  \/ Tick
  \/ LoadAll

SpecLoad == InitLoad /\ [][NextLoad]_vars

(* ---------------------------------------------------------------------- *)
(* GeminiService                                                           *)
(* ---------------------------------------------------------------------- *)
MaxChatSteps == 3

WindowLimit == 15
SystemPolicy == "You are AI GENESIS, an assistant operating inside a secure command dashboard."
NoSystemInstruction == ""
NoTextReply == "I did not receive any text content from the model."
ProbeText == "Reply with exactly: OK"


clamp(n, min, max) == Max(min, Min(max, n))

(* String.prototype.trim on the texts of the model *)
trim(s) ==
  CASE s = " " -> ""
    [] s = " hello " -> "hello"
    [] s = " t " -> "t"
    [] OTHER -> s

(* error messages: the server's text, or one of the fixed messages *)
MsgNone == [k |-> "none", text |-> "", n |-> 0]
MsgMissingKey == [k |-> "missing api key", text |-> "", n |-> 0]
MsgNetwork == [k |-> "network error", text |-> "", n |-> 0]
MsgUnreadable == [k |-> "unreadable response", text |-> "", n |-> 0]
MsgTypeError == [k |-> "TypeError", text |-> "", n |-> 0]
MsgServer(t) == [k |-> "server", text |-> t, n |-> 0]
MsgRequestFailed(status) == [k |-> "request failed (HTTP n)", text |-> "", n |-> status]

Success(t) == [ok |-> TRUE, text |-> t, status |-> Undef, message |-> MsgNone]
Failure(status, m) == [ok |-> FALSE, text |-> "", status |-> status, message |-> m]

(* response bodies: how the text parses, error.message, and the parts of   *)
(* the first candidate                                                     *)
Body(parse, errmsg, pk, frags) ==
  [parse |-> parse, errmsg |-> errmsg, pk |-> pk, frags |-> frags]

BodyUnparsable == Body("bad", JsUndef, "absent", <<>>)
BodyJsonNull == Body("falsy", JsUndef, "absent", <<>>)
BodyEmptyObject == Body("obj", JsUndef, "absent", <<>>)
BodyError == Body("obj", JsStr("bad key"), "absent", <<>>)
BodyErrorEmptyMessage == Body("obj", JsStr(""), "absent", <<>>)
BodyText == Body("obj", JsUndef, "array", <<"a", "", "b">>)
BodyBlank == Body("obj", JsUndef, "array", <<" ">>)
BodyNullPart == Body("obj", JsUndef, "has null", <<"a">>)
BodyPartsNotArray == Body("obj", JsUndef, "not array", <<>>)

Bodies ==
  {BodyUnparsable, BodyJsonNull, BodyEmptyObject, BodyError, BodyErrorEmptyMessage,
   BodyText, BodyBlank, BodyNullPart, BodyPartsNotArray}

Statuses == {200, 403, 500}

Rejected == [kind |-> "rejected", status |-> 0, body |-> BodyUnparsable]
Response(status, body) == [kind |-> "response", status |-> status, body |-> body]

Outcomes == {Rejected} \cup {Response(st, b) : st \in Statuses, b \in Bodies}

resOk(status) == status >= 200 /\ status <= 299

toGeminiContents(messages) ==
  LET kept == SelectSeq(messages, LAMBDA m : m.text # "")
  IN [i \in 1..Len(kept) |->
        [role |-> IF kept[i].role = "assistant" THEN "model" ELSE "user",
         text |-> kept[i].text]]

buildPayloadClampsLikeForm(settings, memoryMessages) ==
  [systemInstruction |-> SystemPolicy,
   contents |-> toGeminiContents(memoryMessages),
   temperature |-> clamp(settings.temperature, 0, 100),
   maxOutputTokens |-> clamp(settings.maxTokens, 64, 2048)]

buildPayload(settings, memoryMessages) ==
  [systemInstruction |-> SystemPolicy,
   contents |-> toGeminiContents(memoryMessages),
   temperature |-> clamp(settings.temperature, 0, 100),
   maxOutputTokens |-> clamp(settings.maxTokens, 1, 2048)]

(* generate up to its first await: the error thrown, the requests issued *)
generateStartSkipsKeyCheck(key, settings, memoryMessages) ==
  [err |-> <<>>, sent |-> <<buildPayload(settings, memoryMessages)>>]

generateStartSendsTwice(key, settings, memoryMessages) ==
  IF key = ""
  THEN [err |-> <<Failure(401, MsgMissingKey)>>, sent |-> <<>>]
  ELSE [err |-> <<>>, sent |-> <<buildPayload(settings, memoryMessages),
                                 buildPayload(settings, memoryMessages)>>]

generateStart(key, settings, memoryMessages) ==
  IF key = ""
  THEN [err |-> <<Failure(401, MsgMissingKey)>>, sent |-> <<>>]
  ELSE [err |-> <<>>, sent |-> <<buildPayload(settings, memoryMessages)>>]

RECURSIVE join(_)
join(frags) ==
  IF frags = <<>> THEN "" ELSE Head(frags) \o join(Tail(frags))

(* generate after the fetch has settled *)
generateSettleDropsStatus(outcome) ==
  IF outcome.kind = "rejected" THEN Failure(0, MsgNetwork)
  ELSE IF ~resOk(outcome.status)
  THEN LET body == outcome.body
           messageFromServer ==
             IF body.parse = "obj" /\ body.errmsg.t = "str" THEN body.errmsg.v ELSE ""
       IN Failure(0,
                  IF messageFromServer # "" THEN MsgServer(messageFromServer)
                  ELSE MsgRequestFailed(outcome.status))
  ELSE LET json == outcome.body
       IN IF json.parse \in {"bad", "falsy"} THEN Failure(500, MsgUnreadable)
          ELSE IF json.pk \in {"has null", "not array"} THEN Failure(Undef, MsgTypeError)
          ELSE IF json.pk = "absent" THEN Success("")
          ELSE Success(join(SelectSeq(json.frags, LAMBDA t : t # "")))

generateSettle(outcome) ==
  IF outcome.kind = "rejected" THEN Failure(0, MsgNetwork)
  ELSE IF ~resOk(outcome.status)
  THEN LET body == outcome.body
           messageFromServer ==
             IF body.parse = "obj" /\ body.errmsg.t = "str" THEN body.errmsg.v ELSE ""
       IN Failure(outcome.status,
                  IF messageFromServer # "" THEN MsgServer(messageFromServer)
                  ELSE MsgRequestFailed(outcome.status))
  ELSE LET json == outcome.body
       IN IF json.parse \in {"bad", "falsy"} THEN Failure(500, MsgUnreadable)
          ELSE IF json.pk \in {"has null", "not array"} THEN Failure(Undef, MsgTypeError)
          ELSE IF json.pk = "absent" THEN Success("")
          ELSE Success(join(SelectSeq(json.frags, LAMBDA t : t # "")))

probeSettings(settings) == [settings EXCEPT !.temperature = 0, !.maxTokens = 16]

probeMessages == <<[role |-> "user", text |-> ProbeText]>>

(* ---------------------------------------------------------------------- *)
(* Chat turns: GenesisApp of the second IIFE and the GenesisApp of the     *)
(* first IIFE, which listens to the same composer form                     *)
(* ---------------------------------------------------------------------- *)
SendInputs == {" ", " hello "}
KeyInputs == {"", " t "}
Keys == {"", "k"}

LongSession ==
  [id |-> 1, title |-> TitleSession, createdAt |-> 1, updatedAt |-> 1,
   messages |-> [k \in 1..(WindowLimit + 1) |-> MsgPool(k)]]

Call(kind, sid, prev, msgs) ==
  [kind |-> kind, sid |-> sid, prev |-> prev, done |-> FALSE, ok |-> FALSE, msgs |-> msgs]

Sent(i, payloads) == [k \in 1..Len(payloads) |-> [call |-> i, payload |-> payloads[k]]]

Turn(raw, typ, cs, rs, uids, input) ==
  [sessions |-> raw, typing |-> typ, calls |-> cs, requests |-> rs, uids |-> uids,
   input |-> input]

userMessage(text) == [id |-> Undef, role |-> JsStr("user"), text |-> JsStr(text), ts |-> 0]

assistantMessage(text) ==
  [id |-> Undef, role |-> JsStr("assistant"), text |-> JsStr(text), ts |-> 0]

(* runAssistantTurn up to the await of the fetch *)
runAssistantTurn(raw, mem, key, now, uid, typ, cs, rs) ==
  LET active == getActiveSession(raw, mem, now, uid)
  IN IF active = <<>> THEN Turn(raw, typ, cs, rs, 0, "")
     ELSE LET memory == getRollingMemory(active[1], WindowLimit)
              g == generateStart(key, appSettings, memory)
          IN IF g.err # <<>> THEN Turn(raw, FALSE, cs, rs, 0, "")
             ELSE Turn(raw, TRUE,
                       Append(cs, Call("chat", active[1].id, "", active[1].messages)),
                       rs \o Sent(Len(cs) + 1, g.sent), 0, "")

handleSend(raw, mem, key, input, now, uid, typ, cs, rs) ==
  LET active == getActiveSession(raw, mem, now, uid)
      text == trim(input)
  IN IF active = <<>> \/ text = "" \/ key = "" \/ trim(key) = ""
     THEN Turn(raw, typ, cs, rs, 0, input)
     ELSE LET added == addMessage(raw, active[1].id, userMessage(text), now, uid)
              turn == runAssistantTurn(added.sessions, mem, key, now, uid + 3, typ, cs, rs)
          IN [turn EXCEPT !.uids = 3]

(* handleSend and callGemini of the first IIFE *)
legacyPayload(userText) ==
  [systemInstruction |-> NoSystemInstruction,
   contents |-> <<[role |-> "user", text |-> userText]>>,
   temperature |-> DefaultSettings.temperature,
   maxOutputTokens |-> DefaultSettings.maxTokens]

legacyHandleSend(key, input, cs, rs) ==
  LET text == trim(input)
  IN IF text = "" \/ key = "" THEN [calls |-> cs, requests |-> rs, input |-> input]
     ELSE [calls |-> Append(cs, Call("legacy", Undef, "", <<>>)),
           requests |-> rs \o Sent(Len(cs) + 1, <<legacyPayload(text)>>),
           input |-> ""]

(* what the continuation of a settled call writes to the session store *)
settleStoreRecordsProbe(call, result, raw, now, uid) ==
  IF call.kind \in {"chat", "test"} /\ result.ok
  THEN LET reply == trim(result.text)
           safeReply == IF reply = "" THEN NoTextReply ELSE reply
       IN addMessage(raw, call.sid, assistantMessage(safeReply), now, uid).sessions
  ELSE raw

settleStoreAnswersFailure(call, result, raw, now, uid) ==
  IF call.kind = "chat"
  THEN LET reply == trim(result.text)
           safeReply == IF reply = "" THEN NoTextReply ELSE reply
       IN addMessage(raw, call.sid, assistantMessage(safeReply), now, uid).sessions
  ELSE raw

settleStoreKeepsEmptyReply(call, result, raw, now, uid) ==
  IF call.kind = "chat" /\ result.ok
  THEN addMessage(raw, call.sid, assistantMessage(trim(result.text)), now, uid).sessions
  ELSE raw

settleStoreUsesActive(call, result, raw, now, uid) ==
  IF call.kind = "chat" /\ result.ok
  THEN LET reply == trim(result.text)
           safeReply == IF reply = "" THEN NoTextReply ELSE reply
       IN addMessage(raw, memActive, assistantMessage(safeReply), now, uid).sessions
  ELSE raw

settleStoreWritesCapturedCopy(call, result, raw, now, uid) ==
  IF call.kind = "chat" /\ result.ok
  THEN LET reply == trim(result.text)
           safeReply == IF reply = "" THEN NoTextReply ELSE reply
           sess == getById(raw, call.sid, now, uid)
       IN IF sess = <<>> THEN raw
          ELSE upsertSession(raw,
                 [sess[1] EXCEPT !.messages =
                    Append(call.msgs, shapeMessage(assistantMessage(safeReply), now, uid))],
                 now, uid + 1).sessions
  ELSE raw

settleStore(call, result, raw, now, uid) ==
  IF call.kind = "chat" /\ result.ok
  THEN LET reply == trim(result.text)
           safeReply == IF reply = "" THEN NoTextReply ELSE reply
       IN addMessage(raw, call.sid, assistantMessage(safeReply), now, uid).sessions
  ELSE raw

settleTypingKeepsIndicator(call, typ) == typ

(* the finally block of runAssistantTurn: setTyping(false) *)
settleTyping(call, typ) == IF call.kind = "chat" THEN FALSE ELSE typ

InitChat ==
  /\ \E raw \in {RawAbsent, RawArray(<<LongSession>>)} : Constructed(raw, 0, MaxChatSteps)
  /\ apiKey \in Keys
  /\ storedKey = apiKey
  /\ legacyKey \in Keys
  /\ appSettings = DefaultSettings
  /\ typing = FALSE
  /\ calls = <<>>
  /\ requests = <<>>

ChatStep(n) ==
  /\ budget >= 1
  /\ budget' = budget - 1
  /\ nextUid' = nextUid + n
  /\ UNCHANGED <<stActive, memActive, clock, legacyKey, appSettings, storedKey>>

(* Enter in the message box: only the second IIFE listens *)
HandleSend(input) ==
  LET r == handleSend(stSessions, memActive, apiKey, input, clock, nextUid,
                      typing, calls, requests)
  IN /\ ChatStep(r.uids)
     /\ stSessions' = r.sessions
     /\ typing' = r.typing
     /\ calls' = r.calls
     /\ requests' = r.requests
     /\ last' = [op |-> "handleSend", input |-> input, preS |-> stSessions,
                 preA |-> stActive, preCalls |-> calls, preRequests |-> requests]
     /\ UNCHANGED apiKey

(* submit of the composer form: the listener of the first IIFE runs, then *)
(* the listener of the second on what is left in the message box          *)
SubmitForm(input) ==
  LET l == legacyHandleSend(legacyKey, input, calls, requests)
      r == handleSend(stSessions, memActive, apiKey, l.input, clock, nextUid,
                      typing, l.calls, l.requests)
  IN /\ ChatStep(r.uids)
     /\ stSessions' = r.sessions
     /\ typing' = r.typing
     /\ calls' = r.calls
     /\ requests' = r.requests
     /\ last' = [op |-> "submit", input |-> input, preS |-> stSessions,
                 preA |-> stActive, preCalls |-> calls, preRequests |-> requests]
     /\ UNCHANGED apiKey

TestApiKey(input) ==
  LET key == trim(input)
      g == generateStart(key, probeSettings(appSettings), probeMessages)
      go == key # "" /\ g.err = <<>>
  IN /\ ChatStep(0)
     /\ apiKey' = IF go THEN key ELSE apiKey
     /\ calls' = IF go THEN Append(calls, Call("test", memActive, apiKey, <<>>)) ELSE calls
     /\ requests' = IF go THEN requests \o Sent(Len(calls) + 1, g.sent) ELSE requests
     /\ last' = [op |-> "testApiKey", input |-> input, preS |-> stSessions,
                 preA |-> stActive, preM |-> memActive, preCalls |-> calls, preRequests |-> requests]
     /\ UNCHANGED <<stSessions, typing>>

GenerateApi(memoryMessages) ==
  LET g == generateStart(apiKey, appSettings, memoryMessages)
  IN /\ ChatStep(0)
     /\ calls' = IF g.err # <<>> THEN calls ELSE Append(calls, Call("api", Undef, "", <<>>))
     /\ requests' = requests \o Sent(Len(calls) + 1, g.sent)
     /\ last' = [op |-> "generate", key |-> apiKey, preS |-> stSessions, preA |-> stActive,
                 preCalls |-> calls, preRequests |-> requests, err |-> g.err]
     /\ UNCHANGED <<stSessions, apiKey, typing>>

Settle(i, outcome) ==
  /\ i \in 1..Len(calls)
  /\ ~calls[i].done
  /\ LET call == calls[i]
         result == IF call.kind = "legacy" THEN Failure(Undef, MsgNone)
                   ELSE generateSettle(outcome)
         after == settleStore(call, result, stSessions, clock, nextUid)
     IN /\ ChatStep(IF after # stSessions THEN 3 ELSE 0)
        /\ stSessions' = after
        /\ typing' = settleTyping(call, typing)
        /\ apiKey' = IF call.kind = "test" THEN call.prev ELSE apiKey
        /\ calls' = [calls EXCEPT ![i].done = TRUE, ![i].ok = result.ok]
        /\ last' = [op |-> "settle", call |-> i, kind |-> call.kind, outcome |-> outcome,
                    result |-> result, preS |-> stSessions, preA |-> stActive,
                    preM |-> memActive,
                    preCalls |-> calls, preRequests |-> requests]
        /\ UNCHANGED requests

MemoryInputs == {getRollingMemory(s, WindowLimit) : s \in MemorySessions}

NextChat ==
  \/ \E input \in SendInputs : HandleSend(input)
  \/ \E input \in SendInputs : SubmitForm(input)
  \/ \E input \in KeyInputs : TestApiKey(input)
  \/ \E m \in MemoryInputs : GenerateApi(m)
  \/ \E i \in 1..MaxChatSteps, o \in Outcomes : Settle(i, o)

SpecChat == InitChat /\ [][NextChat]_vars

(* ---------------------------------------------------------------------- *)
(* Generation settings: what the constructor finds under the settings key  *)
(* and what the settings form saves                                        *)
(* ---------------------------------------------------------------------- *)
TemperatureInputs == {-50, 0, 40, 100, 150}
MaxTokensInputs == {-5, 0, 1, 32, 63, 64, 2048, 2049}

StoredSettings ==
  [temperature : TemperatureInputs, maxTokens : MaxTokensInputs] \cup {DefaultSettings}

(* the constructor reads the stored numbers as they are *)
InitSettings ==
  /\ Constructed(RawAbsent, 0, MaxSteps)
  /\ apiKey = "k"
  /\ storedKey = "k"
  /\ legacyKey = ""
  /\ appSettings \in StoredSettings
  /\ typing = FALSE
  /\ calls = <<>>
  /\ requests = <<>>

saveSettings(temperatureInput, maxTokensInput) ==
  [temperature |-> clamp(temperatureInput, 0, 100),
   maxTokens |-> clamp(maxTokensInput, 64, 2048)]

SaveSettings(keyInput, temperatureInput, maxTokensInput) ==
  /\ budget >= 1
  /\ budget' = budget - 1
  /\ apiKey' = trim(keyInput)
  /\ storedKey' = trim(keyInput)
  /\ appSettings' = saveSettings(temperatureInput, maxTokensInput)
  /\ last' = [op |-> "saveSettings", preS |-> stSessions, preA |-> stActive,
              preCalls |-> calls, preRequests |-> requests]
  /\ UNCHANGED <<stSessions, stActive, memActive, clock, nextUid, legacyKey, typing,
                 calls, requests>>

NextSettings ==
  \/ \E t \in TemperatureInputs, m \in MaxTokensInputs : SaveSettings(" t ", t, m)
  \/ \E input \in SendInputs : HandleSend(input)
  \/ \E m \in MemoryInputs : GenerateApi(m)

SpecSettings == InitSettings /\ [][NextSettings]_vars

(* ---------------------------------------------------------------------- *)
(* Chat turns interleaved with the session controls of the sidebar         *)
(* ---------------------------------------------------------------------- *)
MaxTurnSteps == 5

TurnOutcomes == {Rejected, Response(200, BodyText), Response(200, BodyBlank)}

InitTurns ==
  /\ Constructed(RawAbsent, 0, MaxTurnSteps)
  /\ apiKey = "k"
  /\ storedKey = "k"
  /\ legacyKey = ""
  /\ appSettings = DefaultSettings
  /\ typing = FALSE
  /\ calls = <<>>
  /\ requests = <<>>

NextTurns ==
  \/ HandleSend(" hello ")
  \/ \E i \in 1..MaxTurnSteps, o \in TurnOutcomes : Settle(i, o)
  \/ CreateAndActivateSession
  \/ \E i \in 1..MaxTurnSteps : SetActiveSession(i)
  \/ \E i \in 1..MaxTurnSteps : DeleteSessionHandler(i)
  \/ RenameActiveSession(TitleOf(2))

SpecTurns == InitTurns /\ [][NextTurns]_vars

(* ---------------------------------------------------------------------- *)
(* The credential: key tests interleaved with the settings form            *)
(* ---------------------------------------------------------------------- *)
MaxKeySteps == 3

InFlightChat == {i \in 1..Len(calls) : calls[i].kind = "chat" /\ ~calls[i].done}

KeyOutcomes == {Rejected, Response(200, BodyText), Response(403, BodyError)}

(* the constructor reads the key from storage, "" when there is none *)
InitKey ==
  /\ Constructed(RawAbsent, 0, MaxKeySteps)
  /\ storedKey \in Keys
  /\ apiKey = storedKey
  /\ legacyKey = ""
  /\ appSettings = DefaultSettings
  /\ typing = FALSE
  /\ calls = <<>>
  /\ requests = <<>>

(* ok is the answer to window.confirm *)
WipeApiKey(ok) ==
  /\ budget >= 1
  /\ budget' = budget - 1
  /\ apiKey' = IF ok THEN "" ELSE apiKey
  /\ storedKey' = IF ok THEN "" ELSE storedKey
  /\ last' = [op |-> "wipeApiKey", ok |-> ok, preS |-> stSessions, preA |-> stActive,
              preCalls |-> calls, preRequests |-> requests]
  /\ UNCHANGED <<stSessions, stActive, memActive, clock, nextUid, legacyKey, typing,
                 calls, requests, appSettings>>

NextKey ==
  \/ \E input \in KeyInputs : TestApiKey(input)
  \/ \E i \in 1..MaxKeySteps, o \in KeyOutcomes : Settle(i, o)
  \/ \E input \in KeyInputs : SaveSettings(input, 40, 512)
  \/ \E ok \in BOOLEAN : WipeApiKey(ok)

SpecKey == InitKey /\ [][NextKey]_vars

(* ---------------------------------------------------------------------- *)
(* Chat turns whose network calls eventually resolve or reject             *)
(* ---------------------------------------------------------------------- *)
MaxLiveSteps == 6

LiveOutcomes ==
  {Rejected, Response(200, BodyText), Response(200, BodyBlank), Response(403, BodyError)}

InitLive ==
  /\ Constructed(RawAbsent, 0, MaxLiveSteps)
  /\ apiKey = "k"
  /\ storedKey = "k"
  /\ legacyKey = ""
  /\ appSettings = DefaultSettings
  /\ typing = FALSE
  /\ calls = <<>>
  /\ requests = <<>>

(* a send is taken only while the steps left cover the calls it leaves in *)
(* flight, so that the bound on the steps never keeps a call from settling *)
LiveSend(input) ==
  /\ budget >= Cardinality(InFlightChat) + 2
  /\ HandleSend(input)

NextLive ==
  \/ \E input \in SendInputs : LiveSend(input)
  \/ \E i \in 1..MaxLiveSteps, o \in LiveOutcomes : Settle(i, o)

SpecLive ==
  /\ InitLive
  /\ [][NextLive]_vars
  /\ \A i \in 1..MaxLiveSteps : WF_vars(\E o \in LiveOutcomes : Settle(i, o))

(* ---------------------------------------------------------------------- *)
(* Markdown: texts are sequences of one-character strings; markup is a     *)
(* sequence of tokens (characters, entities and tags), blocks are records  *)
(* ---------------------------------------------------------------------- *)
(* the backtick character, which a string of this language cannot hold *)
Backtick == "backtick"
LF == "\n"
CR == "\r"
Url == "http://"

IsSpace(c) == c \in {" ", LF, CR}
IsLineTerminator(c) == c \in {LF, CR}
IsDigit(c) == c \in {"0", "1", "2", "3", "4", "5", "6", "7", "8", "9"}

(* escapeHtml, on characters and on the tokens an earlier pass produced *)
escapeHtml(text) ==
  [i \in 1..Len(text) |->
     CASE text[i] = "&" -> "&amp;"
       [] text[i] = "<" -> "&lt;"
       [] text[i] = ">" -> "&gt;"
       [] text[i] = "\"" -> "&quot;"
       [] text[i] = "'" -> "&#39;"
       [] text[i] = "&amp;" -> "&amp;amp;"
       [] text[i] = "&lt;" -> "&amp;lt;"
       [] text[i] = "&gt;" -> "&amp;gt;"
       [] text[i] = "<strong>" -> "&lt;strong&gt;"
       [] text[i] = "</strong>" -> "&lt;/strong&gt;"
       [] OTHER -> text[i]]

RECURSIVE trimEnd(_)
trimEnd(s) ==
  IF s = <<>> THEN <<>>
  ELSE IF IsSpace(s[Len(s)]) THEN trimEnd(SubSeq(s, 1, Len(s) - 1)) ELSE s

RECURSIVE trimStart(_)
trimStart(s) ==
  IF s = <<>> THEN <<>>
  ELSE IF IsSpace(Head(s)) THEN trimStart(Tail(s)) ELSE s

trimText(s) == trimStart(trimEnd(s))

(* the least index of a set of positions, 0 when the set is empty *)
First(S) == IF S = {} THEN 0 ELSE CHOOSE i \in S : \A j \in S : i <= j

(* raw.split(/\r?\n/) *)
RECURSIVE splitLines(_)
splitLines(s) ==
  LET nl == First({i \in 1..Len(s) : s[i] = LF})
      end == IF nl >= 2 /\ s[nl - 1] = CR THEN nl - 2 ELSE nl - 1
  IN IF nl = 0 THEN <<s>>
     ELSE <<SubSeq(s, 1, end)>> \o splitLines(SubSeq(s, nl + 1, Len(s)))

IsFenceAt(s, i) == i + 2 <= Len(s) /\ s[i] = Backtick /\ s[i + 1] = Backtick /\ s[i + 2] = Backtick

(* src.split(fence), the fence being three backticks *)
RECURSIVE splitFence(_)
splitFence(s) ==
  LET f == First({i \in 1..Len(s) : IsFenceAt(s, i)})
  IN IF f = 0 THEN <<s>>
     ELSE <<SubSeq(s, 1, f - 1)>> \o splitFence(SubSeq(s, f + 3, Len(s)))

(* the capture of /^\s*[-*]\s+(.+)$/ on a line without trailing spaces, as *)
(* <<capture>>, or <<>> when the line does not match                       *)
ulMatch(t) ==
  LET lead == trimStart(t)
      rest == IF lead = <<>> THEN <<>> ELSE trimStart(Tail(lead))
  IN IF /\ lead # <<>>
        /\ Head(lead) \in {"-", "*"}
        /\ Len(lead) >= 2
        /\ IsSpace(lead[2])
        /\ rest # <<>>
        /\ \A i \in 1..Len(rest) : ~IsLineTerminator(rest[i])
     THEN <<rest>> ELSE <<>>

RECURSIVE dropDigits(_)
dropDigits(s) ==
  IF s # <<>> /\ IsDigit(Head(s)) THEN dropDigits(Tail(s)) ELSE s

(* the second capture of /^\s*(\d+)\.\s+(.+)$/ *)
olMatch(t) ==
  LET lead == trimStart(t)
      dot == dropDigits(lead)
      rest == IF dot = <<>> THEN <<>> ELSE trimStart(Tail(dot))
  IN IF /\ lead # <<>>
        /\ IsDigit(Head(lead))
        /\ dot # <<>>
        /\ Head(dot) = "."
        /\ Len(dot) >= 2
        /\ IsSpace(dot[2])
        /\ rest # <<>>
        /\ \A i \in 1..Len(rest) : ~IsLineTerminator(rest[i])
     THEN <<rest>> ELSE <<>>


NoTerminator(s, from, to) == \A k \in from..to : ~IsLineTerminator(s[k])

IsStars(s, i) == i + 1 <= Len(s) /\ s[i] = "*" /\ s[i + 1] = "*"

BoldClose(s, i) == First({j \in (i + 3)..Len(s) : IsStars(s, j)})

IsBoldAt(s, i) ==
  /\ IsStars(s, i)
  /\ BoldClose(s, i) # 0
  /\ NoTerminator(s, i + 2, BoldClose(s, i) - 1)

(* safe.replace(/\*\*(.+?)\*\*/g, '<strong>$1</strong>') *)
RECURSIVE replaceBold(_)
replaceBold(s) ==
  LET open == First({i \in 1..Len(s) : IsBoldAt(s, i)})
      close == BoldClose(s, open)
  IN IF open = 0 THEN s
     ELSE SubSeq(s, 1, open - 1) \o <<"<strong>">> \o SubSeq(s, open + 2, close - 1)
            \o <<"</strong>">> \o replaceBold(SubSeq(s, close + 2, Len(s)))

CodeClose(s, i) == First({j \in (i + 1)..Len(s) : s[j] = Backtick})

IsCodeAt(s, i) == s[i] = Backtick /\ CodeClose(s, i) > i + 1

(* the replacement of the inline-code pattern: a backtick, one or more    *)
(* characters other than a backtick, a backtick; the callback escapes the *)
(* captured text again                                                     *)
RECURSIVE replaceCode(_)
replaceCode(s) ==
  LET open == First({i \in 1..Len(s) : IsCodeAt(s, i)})
      close == CodeClose(s, open)
  IN IF open = 0 THEN s
     ELSE SubSeq(s, 1, open - 1) \o <<"<code>">>
            \o escapeHtml(SubSeq(s, open + 1, close - 1))
            \o <<"</code>">> \o replaceCode(SubSeq(s, close + 1, Len(s)))

(* end of the run [^\s)]+ that starts at from: the index of the character  *)
(* after it, 0 when the text ends first                                    *)
UrlEnd(s, from) == First({k \in from..Len(s) : IsSpace(s[k]) \/ s[k] = ")"})

IsLinkTail(s, j) ==
  /\ j + 4 <= Len(s)
  /\ s[j] = "]"
  /\ s[j + 1] = "("
  /\ s[j + 2] = Url
  /\ UrlEnd(s, j + 3) > j + 3
  /\ s[UrlEnd(s, j + 3)] = ")"

LinkClose(s, i) ==
  First({j \in (i + 2)..Len(s) : IsLinkTail(s, j) /\ NoTerminator(s, i + 1, j - 1)})

IsLinkAt(s, i) == s[i] = "[" /\ LinkClose(s, i) # 0

(* safe.replace(/\[(.+?)\]\((https?:\/\/[^\s)]+)\)/g, '<a href="$2" ...>$1</a>') *)
RECURSIVE replaceLink(_)
replaceLink(s) ==
  LET open == First({i \in 1..Len(s) : IsLinkAt(s, i)})
      close == LinkClose(s, open)
      end == UrlEnd(s, close + 3)
  IN IF open = 0 THEN s
     ELSE SubSeq(s, 1, open - 1) \o <<"<a href=\"">> \o SubSeq(s, close + 2, end - 1)
            \o <<"\" target=\"_blank\" rel=\"noopener noreferrer\">">>
            \o SubSeq(s, open + 1, close - 1) \o <<"</a>">>
            \o replaceLink(SubSeq(s, end + 1, Len(s)))

formatInline(text) == replaceLink(replaceCode(replaceBold(escapeHtml(text))))

(* html is the sequence of the elements appended to it *)
Element(tag, items) == [tag |-> tag, items |-> items]

Scan(html, listMode, listBuf) == [html |-> html, listMode |-> listMode, listBuf |-> listBuf]

flushList(st) ==
  IF st.listMode = "" \/ Len(st.listBuf) = 0 THEN st
  ELSE Scan(Append(st.html,
                   Element(IF st.listMode = "ol" THEN "ol" ELSE "ul",
                           [i \in 1..Len(st.listBuf) |-> formatInline(st.listBuf[i])])),
            "", <<>>)

pushParagraph(st, line) ==
  LET t == trimText(line)
  IN IF t = <<>> THEN st
     ELSE [st EXCEPT !.html = Append(st.html, Element("p", <<formatInline(t)>>))]

scanLineMergesKinds(st, line) ==
  LET trimmed == trimEnd(line)
      ul == ulMatch(trimmed)
      ol == olMatch(trimmed)
  IN IF ul # <<>>
     THEN Scan(st.html, "ul", Append(st.listBuf, ul[1]))
     ELSE IF ol # <<>>
     THEN Scan(st.html, "ol", Append(st.listBuf, ol[1]))
     ELSE IF trimText(trimmed) = <<>> THEN flushList(st)
     ELSE pushParagraph(flushList(st), trimmed)

(* one iteration of the loop over the lines *)
scanLine(st, line) ==
  LET trimmed == trimEnd(line)
      ul == ulMatch(trimmed)
      ol == olMatch(trimmed)
  IN IF ul # <<>>
     THEN LET f == IF st.listMode # "" /\ st.listMode # "ul" THEN flushList(st) ELSE st
          IN Scan(f.html, "ul", Append(f.listBuf, ul[1]))
     ELSE IF ol # <<>>
     THEN LET f == IF st.listMode # "" /\ st.listMode # "ol" THEN flushList(st) ELSE st
          IN Scan(f.html, "ol", Append(f.listBuf, ol[1]))
     ELSE IF trimText(trimmed) = <<>> THEN flushList(st)
     ELSE pushParagraph(flushList(st), trimmed)

RECURSIVE scanLines(_, _)
scanLines(st, lines) ==
  IF lines = <<>> THEN st ELSE scanLines(scanLine(st, Head(lines)), Tail(lines))

formatInlineAndBlocksDropsOpenList(text) ==
  scanLines(Scan(<<>>, "", <<>>), splitLines(text)).html

formatInlineAndBlocks(text) ==
  flushList(scanLines(Scan(<<>>, "", <<>>), splitLines(text))).html

RECURSIVE stripLeadingNewlines(_)
stripLeadingNewlines(s) ==
  IF s # <<>> /\ Head(s) = LF THEN stripLeadingNewlines(Tail(s)) ELSE s

RECURSIVE stripTrailingNewlines(_)
stripTrailingNewlines(s) ==
  IF s # <<>> /\ s[Len(s)] = LF THEN stripTrailingNewlines(SubSeq(s, 1, Len(s) - 1)) ELSE s

formatPartTreatsAllAsText(part, i) == formatInlineAndBlocks(part)

(* the body of the loop of format, i counted from 0 as in the code *)
formatPart(part, i) ==
  IF i % 2 = 1
  THEN <<Element("pre", <<escapeHtml(stripTrailingNewlines(stripLeadingNewlines(part)))>>)>>
  ELSE formatInlineAndBlocks(part)

RECURSIVE formatParts(_, _)
formatParts(parts, i) ==
  IF i >= Len(parts) THEN <<>>
  ELSE formatPart(parts[i + 1], i) \o formatParts(parts, i + 1)

format(text) == formatParts(splitFence(text), 0)

(* texts given to the Markdown functions: concatenations of a few pieces *)
MaxPieces == 5
MaxLines == 4
MaxSegments == 4

Fence == <<Backtick, Backtick, Backtick>>

RECURSIVE Texts(_, _)
Texts(pieces, n) ==
  IF n = 0 THEN {<<>>}
  ELSE LET t == Texts(pieces, n - 1) IN t \cup {x \o p : x \in t, p \in pieces}

RECURSIVE JoinWith(_, _)
JoinWith(parts, sep) ==
  IF Len(parts) = 0 THEN <<>>
  ELSE IF Len(parts) = 1 THEN parts[1]
  ELSE parts[1] \o sep \o JoinWith(Tail(parts), sep)

InlinePieces ==
  {<<"*", "*">>, <<Backtick>>, <<"a">>, <<"<">>, <<"[", "a", "]", "(", Url, "x", ")">>}

InlineInputs == Texts(InlinePieces, MaxPieces)

LinePieces ==
  {<<"-", " ", "a">>, <<"*", " ", "b">>, <<"1", ".", " ", "c">>, <<"1", "2", ".", " ", "d">>,
   <<"t">>, <<>>, <<" ", CR>>}

BlockInputs ==
  {JoinWith(ls, <<LF>>) : ls \in UNION {[1..n -> LinePieces] : n \in 1..MaxLines}}

SegmentPieces ==
  {<<>>, <<"a">>, <<LF, "c", "<", LF>>, <<"-", " ", "x">>, <<"*", "*", "b", "*", "*">>}

FormatInputs ==
  {JoinWith(ss, Fence) : ss \in UNION {[1..n -> SegmentPieces] : n \in 1..MaxSegments}}

InitMarkdown == Constructed(RawAbsent, 0, 1) /\ ChatIdle

Apply(op, text, ret) ==
  /\ Step(0)
  /\ last' = [op |-> op, text |-> text, ret |-> ret]
  /\ UNCHANGED <<stSessions, stActive, memActive, clock>>

FormatInline(text) == Apply("formatInline", text, formatInline(text))

FormatInlineAndBlocks(text) == Apply("formatInlineAndBlocks", text, formatInlineAndBlocks(text))

Format(text) == Apply("format", text, format(text))

NextMarkdown ==
  \/ \E text \in InlineInputs : FormatInline(text)
  \/ \E text \in BlockInputs : FormatInlineAndBlocks(text)
  \/ \E text \in FormatInputs : Format(text)

SpecMarkdown == InitMarkdown /\ [][NextMarkdown]_vars

(* ---------------------------------------------------------------------- *)
(* Properties                                                              *)
(* ---------------------------------------------------------------------- *)
PreAll == loadAll(last.preS)
PostAll == loadAll(stSessions)

RECURSIVE KeepOthers(_, _)
KeepOthers(all, id) ==
  IF all = <<>> THEN <<>>
  ELSE IF Head(all).id = id THEN KeepOthers(Tail(all), id)
       ELSE <<Head(all)>> \o KeepOthers(Tail(all), id)

Touched(all, id) == {i \in 1..Len(all) : all[i].id = id}

(* C1: after ensureAtLeastOneSession has run, the persisted collection is   *)
(* non-empty and the persisted active pointer is the id of a session of    *)
(* the persisted collection.                                               *)
C1_SelfHealPointsIntoCollection ==
  last.op = "ensureAtLeastOneSession" =>
    /\ Len(PostAll) >= 1
    /\ \E i \in 1..Len(PostAll) : PostAll[i].id = stActive

(* C2: deleteOne(id) removes exactly the sessions with that id, keeps the  *)
(* others in order; the pointer moves to the first remaining session (or   *)
(* is cleared) when it was the removed id and is unchanged otherwise.      *)
C2_DeleteOne ==
  last.op = "deleteOne" =>
    /\ PostAll = KeepOthers(PreAll, last.id)
    /\ last.preA = last.id =>
         stActive = (IF Len(PostAll) = 0 THEN 0 ELSE PostAll[1].id)
    /\ last.preA # last.id => stActive = last.preA

C2_Witness ==
  /\ last.op = "deleteOne"
  /\ last.preA = last.id
  /\ Len(PostAll) >= 1
  /\ Len(PostAll) < Len(PreAll)
  /\ PreAll[1].id = last.id

(* C3: deleteAllSessions leaves an empty collection and an empty pointer;  *)
(* ensureAtLeastOneSession after it leaves exactly one session that the    *)
(* persisted and the in-memory pointer both name.                          *)
C3_ClearThenSelfHeal ==
  /\ last.op = "deleteAllSessions" => (PostAll = <<>> /\ stActive = 0)
  /\ (\/ last.op = "clearAllSessions"
      \/ (last.op = "ensureAtLeastOneSession" /\ PreAll = <<>> /\ last.preA = 0))
       => /\ Len(PostAll) = 1
          /\ stActive = PostAll[1].id
          /\ memActive = PostAll[1].id

C3_Witness ==
  /\ last.op = "clearAllSessions"
  /\ Len(PreAll) >= 2
  /\ Len(PostAll) = 1

(* C4: getById of the id returned by upsertSession(s) yields the session   *)
(* upsertSession returned, which is ensureShape(s), field by field.        *)
C4_UpsertThenGetById ==
  last.op = "upsertSession" =>
    /\ ~last.threw
    /\ LET got == getById(stSessions, last.ret.id, clock, nextUid)
       IN /\ got # <<>>
          /\ got[1].id = last.ret.id
          /\ got[1].title = last.ret.title
          /\ got[1].createdAt = last.ret.createdAt
          /\ got[1].updatedAt = last.ret.updatedAt
          /\ got[1].messages = last.ret.messages

C4_Witness ==
  /\ last.op = "upsertSession"
  /\ last.s.id \in {PreAll[i].id : i \in 1..Len(PreAll)}
  /\ last.s.createdAt = 0
  /\ Len(PreAll) >= 2

(* C5: the rolling memory has min(L, |messages|) entries, the last         *)
(* messages in their order, each with only role and text.                  *)
C5_RollingMemory ==
  last.op = "getRollingMemory" =>
    LET msgs == IF IsArray(last.session.messages) THEN last.session.messages ELSE <<>>
        n == IF last.limit < Len(msgs) THEN last.limit ELSE Len(msgs)
    IN /\ Len(last.ret) = n
       /\ \A k \in 1..n :
            /\ last.ret[k].role = msgs[Len(msgs) - n + k].role
            /\ last.ret[k].text = msgs[Len(msgs) - n + k].text
            /\ DOMAIN last.ret[k] = {"role", "text"}

C5_Witness ==
  /\ last.op = "getRollingMemory"
  /\ Len(last.session.messages) = MaxMsgs
  /\ last.limit = 2
  /\ Len(last.ret) = 2

(* C6: ensureShape applied to its own result, at a later time and with     *)
(* the identifier generator advanced, gives that result back.              *)
C6_EnsureShapeIdempotent ==
  last.op = "ensureShape" => ensureShape(last.ret, clock, nextUid) = last.ret

C6_Witness ==
  /\ last.op = "ensureShape"
  /\ Falsy(last.x.id)
  /\ last.x.title = <<>>
  /\ last.x.createdAt = 0
  /\ last.x.updatedAt = 0
  /\ clock > last.ret.createdAt

(* C7: addMessage on an existing session appends one message at the end of *)
(* that session, keeps its earlier messages and every other session, and   *)
(* the appended message has a role of user or assistant and a string text. *)
C7_AddMessageAppends ==
  (last.op = "addMessage" /\ last.ret # <<>>) =>
    /\ Len(PostAll) = Len(PreAll)
    /\ \A i \in 1..Len(PreAll) :
         IF PreAll[i].id # last.id
         THEN PostAll[i] = PreAll[i]
         ELSE LET old == PreAll[i].messages
                  new == PostAll[i].messages
                  m == new[Len(new)]
              IN /\ Len(new) = Len(old) + 1
                 /\ SubSeq(new, 1, Len(old)) = old
                 /\ m.role \in {"user", "assistant"}
                 /\ m.role = "assistant" <=> last.message.role = JsStr("assistant")
                 /\ m.text = (IF last.message.text.t = "str" THEN last.message.text.v ELSE "")

C7_Witness ==
  /\ last.op = "addMessage"
  /\ last.ret # <<>>
  /\ Len(PreAll) >= 2
  /\ last.message.role = JsStr("system")
  /\ last.message.text = JsNull
  /\ \E i \in 1..Len(PreAll) : PreAll[i].id = last.id /\ Len(PreAll[i].messages) >= 1

(* C8: addMessage and rename with an id that is not in the collection      *)
(* return the absent value and leave the persisted collection and the      *)
(* active pointer as they were.                                            *)
C8_MissingIdIsNoOp ==
  (last.op \in {"addMessage", "rename"} /\ Touched(PreAll, last.id) = {}) =>
    /\ last.ret = <<>>
    /\ stSessions = last.preS
    /\ stActive = last.preA

C8_Witness ==
  /\ last.op = "addMessage"
  /\ Touched(PreAll, last.id) = {}
  /\ Len(PreAll) >= 1
  /\ last.message.text = JsStr("hi")

(* C9: after rename(id, t) on an existing session its title is non-empty,  *)
(* at most 80 long, the first 80 characters of t (or the default title     *)
(* when t is empty), and id, createdAt and messages are unchanged.         *)
C9_RenameTruncates ==
  (last.op = "rename" /\ last.ret # <<>>) =>
    \A i \in Touched(PreAll, last.id) :
      LET t == last.title
          title == PostAll[i].title
      IN /\ title # <<>>
         /\ Len(title) <= 80
         /\ t # <<>> =>
              /\ Len(title) = (IF Len(t) < 80 THEN Len(t) ELSE 80)
              /\ \A k \in 1..Len(title) : title[k] = t[k]
         /\ t = <<>> => title = TitleSession
         /\ PostAll[i].id = PreAll[i].id
         /\ PostAll[i].createdAt = PreAll[i].createdAt
         /\ PostAll[i].messages = PreAll[i].messages

C9_Witness ==
  /\ last.op = "rename"
  /\ last.ret # <<>>
  /\ Len(last.title) = LongTitle
  /\ \E i \in Touched(PreAll, last.id) : Len(PostAll[i].title) = 80

(* C10: no two sessions of the persisted collection share an id, and       *)
(* rename and addMessage leave the id of every session as it was.          *)
C10_IdsUniqueAndStable ==
  /\ \A i, j \in 1..Len(PostAll) : i # j => PostAll[i].id # PostAll[j].id
  /\ (last.op \in {"rename", "addMessage", "renameActiveSession"} /\ last.ret # <<>>) =>
       /\ Len(PostAll) = Len(PreAll)
       /\ \A i \in 1..Len(PreAll) : PostAll[i].id = PreAll[i].id

C10_Witness ==
  /\ last.op = "upsertSession"
  /\ Touched(PreAll, last.s.id) # {}
  /\ Len(PostAll) >= 2

(* C11: every session the store produces has updatedAt >= createdAt: the   *)
(* session createNewSession builds, the session rename and addMessage      *)
(* return, and the result of ensureShape on a record whose present         *)
(* timestamps are not later than the time of the call.                     *)
C11_UpdatedNotBeforeCreated ==
  /\ (last.op = "ensureShape" /\ last.x.createdAt <= last.now /\ last.x.updatedAt <= last.now)
       => last.ret.updatedAt >= last.ret.createdAt
  /\ (last.op \in {"rename", "addMessage"} /\ last.ret # <<>>)
       => last.ret[1].updatedAt >= last.ret[1].createdAt
  /\ last.op = "createAndActivateSession"
       => PostAll[1].updatedAt >= PostAll[1].createdAt

(* C12: loadAll never raises; it returns the empty sequence when the       *)
(* persisted collection is absent, empty, not valid JSON or not an array,  *)
(* and the persisted array, in stored order, otherwise.                    *)
C12_LoadAllTotal ==
  last.op = "loadAll" =>
    /\ ~last.threw
    /\ last.preS.t \in {"absent", "empty", "badjson", "object"} => last.ret = <<>>
    /\ last.preS.t = "array" =>
         /\ Len(last.ret) = Len(last.preS.v)
         /\ \A i \in 1..Len(last.ret) : last.ret[i] = last.preS.v[i]

C12_Witness ==
  /\ last.op = "loadAll"
  /\ last.preS = RawObject
  /\ last.ret = <<>>

(* C13: upsertSession, getById, deleteOne, rename, addMessage and          *)
(* ensureAtLeastOneSession complete without raising on any persisted       *)
(* collection, arrays with null entries or entries without id included.    *)
C13_StoreOperationsTotal ==
  last.op \in {"upsertSession", "getById", "deleteOne", "rename", "addMessage",
               "ensureAtLeastOneSession"}
    => ~last.threw

InFlight(kinds) == {i \in 1..Len(calls) : calls[i].kind \in kinds /\ ~calls[i].done}

RequestsOf(i) == {k \in 1..Len(requests) : requests[k].call = i}

SettledGenerate == last.op = "settle" /\ last.kind \in {"chat", "test", "api"}

(* C14: generate called with an empty credential fails with the            *)
(* missing-credential error and issues no request.                         *)
C14_MissingKeyNoRequest ==
  (last.op = "generate" /\ last.key = "") =>
    /\ last.err = <<Failure(401, MsgMissingKey)>>
    /\ requests = last.preRequests
    /\ calls = last.preCalls

C14_Witness ==
  /\ last.op = "generate"
  /\ last.key = ""
  /\ Len(requests) >= 1

(* C15: every generate call made with a non-empty credential has issued    *)
(* exactly one request, while it is in flight and after it has settled     *)
(* with any outcome.                                                       *)
C15_ExactlyOneRequest ==
  /\ \A i \in 1..Len(calls) :
       calls[i].kind \in {"chat", "test", "api"} => Cardinality(RequestsOf(i)) = 1
  /\ (last.op = "generate" /\ last.key # "") => Len(requests) = Len(last.preRequests) + 1
  /\ SettledGenerate => requests = last.preRequests

C15_Witness ==
  /\ SettledGenerate
  /\ last.outcome = Rejected
  /\ Cardinality(RequestsOf(last.call)) = 1
  /\ InFlight({"chat", "test", "api"}) # {}

SuccessStatus(n) == n \in 200..299

(* C16 as stated: a response with non-success status N gives an upstream   *)
(* error with status N whose message is the body's error.message when the  *)
(* body parses as JSON with that field, and the request-failed message     *)
(* naming N otherwise.                                                     *)
C16_UpstreamErrorAsStated ==
  (SettledGenerate /\ last.outcome.kind = "response" /\ ~SuccessStatus(last.outcome.status)) =>
    LET body == last.outcome.body
        n == last.outcome.status
    IN /\ ~last.result.ok
       /\ last.result.status = n
       /\ last.result.message =
            (IF body.parse = "obj" /\ body.errmsg.t = "str"
             THEN MsgServer(body.errmsg.v) ELSE MsgRequestFailed(n))

(* C16: a response with non-success status N gives an upstream error with  *)
(* status N whose message is the body's error.message when the body parses *)
(* as JSON with that field and the field is not empty, and the             *)
(* request-failed message naming N otherwise.                              *)
C16_UpstreamError ==
  (SettledGenerate /\ last.outcome.kind = "response" /\ ~SuccessStatus(last.outcome.status)) =>
    LET body == last.outcome.body
        n == last.outcome.status
    IN /\ ~last.result.ok
       /\ last.result.status = n
       /\ last.result.message =
            (IF body.parse = "obj" /\ body.errmsg.t = "str" /\ body.errmsg.v # ""
             THEN MsgServer(body.errmsg.v) ELSE MsgRequestFailed(n))

C16_Witness ==
  /\ SettledGenerate
  /\ last.outcome = Response(403, BodyError)
  /\ last.result = Failure(403, MsgServer("bad key"))

RECURSIVE ConcatNonEmpty(_)
ConcatNonEmpty(frags) ==
  IF frags = <<>> THEN ""
  ELSE IF Head(frags) = "" THEN ConcatNonEmpty(Tail(frags))
       ELSE Head(frags) \o ConcatNonEmpty(Tail(frags))

(* C17: no response gives a network error with status 0; a success status  *)
(* gives the malformed-response error exactly when the body does not parse *)
(* as JSON; a success status with any parseable body gives a result whose  *)
(* text is the concatenation of the first candidate's non-empty fragments. *)
C17_RemainingOutcomes ==
  SettledGenerate =>
    /\ last.outcome.kind = "rejected" => last.result = Failure(0, MsgNetwork)
    /\ (last.outcome.kind = "response" /\ SuccessStatus(last.outcome.status)) =>
         LET body == last.outcome.body
         IN /\ (last.result.message = MsgUnreadable) <=> (body.parse = "bad")
            /\ body.parse # "bad" =>
                 /\ last.result.ok
                 /\ last.result.text = ConcatNonEmpty(body.frags)

(* C18: every request sent for a chat turn carries the system policy       *)
(* instruction and, as contents, the last 15 messages of the session of    *)
(* the turn, in order, with assistant sent as model and every other role   *)
(* as user, entries with empty text left out.                              *)
C18_RequestIsPolicyPlusWindow ==
  \A k \in 1..Len(requests) :
    LET r == requests[k].payload
        c == calls[requests[k].call]
        n == Len(c.msgs)
        w == SubSeq(c.msgs, IF n > 15 THEN n - 14 ELSE 1, n)
        kept == SelectSeq(w, LAMBDA m : m.text # "")
    IN c.kind \in {"chat", "legacy"} =>
         /\ r.systemInstruction = SystemPolicy
         /\ Len(r.contents) = Len(kept)
         /\ Len(r.contents) <= 15
         /\ \A j \in 1..Len(kept) :
              /\ r.contents[j].text = kept[j].text
              /\ r.contents[j].role = (IF kept[j].role = "assistant" THEN "model" ELSE "user")

(* C19: the key test, when it starts and when its probe settles with any   *)
(* outcome, leaves the persisted collection, every session's messages and  *)
(* the active pointer as they were.                                        *)
C19_KeyTestLeavesSessions ==
  (last.op = "testApiKey" \/ (last.op = "settle" /\ last.kind = "test")) =>
    /\ stSessions = last.preS
    /\ stActive = last.preA
    /\ memActive = last.preM

C19_Witness ==
  /\ last.op = "settle"
  /\ last.kind = "test"
  /\ last.result.ok
  /\ last.result.text # ""
  /\ Len(loadAll(stSessions)[1].messages) >= 1

(* C20: while a generation call started by a chat turn is in flight the    *)
(* typing indicator is on.                                                 *)
C20_BusyWhileInFlight ==
  InFlight({"chat"}) # {} => typing

(* ---------------------------------------------------------------------- *)
(* Markdown properties                                                     *)
(* ---------------------------------------------------------------------- *)
LineKind(line) ==
  IF ulMatch(trimEnd(line)) # <<>> THEN "ul"
  ELSE IF olMatch(trimEnd(line)) # <<>> THEN "ol"
  ELSE IF trimText(line) = <<>> THEN "blank"
  ELSE "p"

LineItem(line) ==
  IF LineKind(line) = "ul" THEN ulMatch(trimEnd(line))[1] ELSE olMatch(trimEnd(line))[1]

IsListLine(line) == LineKind(line) \in {"ul", "ol"}

ListLines(text) == SelectSeq(splitLines(text), IsListLine)

(* the items of the lists of a markup, in order, each with its list's tag *)
RECURSIVE ListItems(_)
ListItems(html) ==
  IF html = <<>> THEN <<>>
  ELSE (IF Head(html).tag \in {"ul", "ol"}
        THEN [i \in 1..Len(Head(html).items) |-> Head(html).tag]
        ELSE <<>>) \o ListItems(Tail(html))

(* C21: the items of the emitted lists are, in source order, the list-item *)
(* lines of the text, and each sits in a list of its own line's kind: no   *)
(* list holds items of two kinds, and an item of the other kind closes the *)
(* open list before a new one starts                                       *)
C21_ListsOfOneKind ==
  last.op = "formatInlineAndBlocks" =>
    LET src == ListLines(last.text)
        out == ListItems(last.ret)
    IN /\ Len(out) = Len(src)
       /\ \A k \in 1..Len(src) : out[k] = LineKind(src[k])

C21_Witness ==
  /\ last.op = "formatInlineAndBlocks"
  /\ LET lines == splitLines(last.text)
     IN \E k \in 1..(Len(lines) - 1) :
          /\ LineKind(lines[k]) = "ul"
          /\ LineKind(lines[k + 1]) = "ol"
  /\ \E i \in 1..(Len(last.ret) - 1) :
       last.ret[i].tag = "ul" /\ last.ret[i + 1].tag = "ol"

(* C22: a text that is one inline-code span, a backtick, some characters   *)
(* other than a backtick and a backtick, becomes one code element holding  *)
(* the escaped characters, whatever they are                               *)
C22_InlineCodeVerbatim ==
  (/\ last.op = "formatInline"
   /\ Len(last.text) >= 3
   /\ last.text[1] = Backtick
   /\ last.text[Len(last.text)] = Backtick
   /\ \A i \in 2..(Len(last.text) - 1) : last.text[i] # Backtick)
  => last.ret = <<"<code>">> \o escapeHtml(SubSeq(last.text, 2, Len(last.text) - 1))
                  \o <<"</code>">>

RunLength(lines, kind) ==
  IF \E i \in 1..Len(lines) : LineKind(lines[i]) # kind
  THEN (CHOOSE i \in 1..Len(lines) :
          /\ LineKind(lines[i]) # kind
          /\ \A j \in 1..(i - 1) : LineKind(lines[j]) = kind) - 1
  ELSE Len(lines)

RECURSIVE ExpectedBlocks(_)
ExpectedBlocks(lines) ==
  IF lines = <<>> THEN <<>>
  ELSE LET kind == LineKind(Head(lines))
           n == RunLength(lines, kind)
       IN IF kind = "blank" THEN ExpectedBlocks(Tail(lines))
          ELSE IF kind = "p"
          THEN <<Element("p", <<formatInline(trimText(Head(lines)))>>)>>
                 \o ExpectedBlocks(Tail(lines))
          ELSE <<Element(kind, [i \in 1..n |-> formatInline(LineItem(lines[i]))])>>
                 \o ExpectedBlocks(SubSeq(lines, n + 1, Len(lines)))

(* C24: the markup is, in source order, one list for each maximal run of   *)
(* consecutive list-item lines of one kind, holding the run's items, and   *)
(* one paragraph for each other line that is not blank; blank lines give   *)
(* nothing and a list still open at the end of the text is emitted         *)
C24_EveryLineOnce ==
  last.op = "formatInlineAndBlocks" => last.ret = ExpectedBlocks(splitLines(last.text))

C24_Witness ==
  /\ last.op = "formatInlineAndBlocks"
  /\ last.text = <<"-", " ", "a", LF, "*", " ", "b", LF, LF, "t">>
  /\ last.ret = <<Element("ul", <<(<<"a">>), (<<"b">>)>>), Element("p", <<(<<"t">>)>>)>>

Tags == {"<strong>", "</strong>", "<code>", "</code>", "</a>"}

HasFence(s) == \E i \in 1..Len(s) : IsFenceAt(s, i)

(* the part of the text between the fences: the text is its parts joined   *)
(* by the fence, and no part holds a fence                                 *)
IsSplitOnFence(parts, text) ==
  /\ Len(parts) >= 1
  /\ JoinWith(parts, Fence) = text
  /\ \A i \in 1..Len(parts) : ~HasFence(parts[i])

RECURSIVE ExpectedParts(_, _)
ExpectedParts(parts, i) ==
  IF i > Len(parts) THEN <<>>
  ELSE (IF i % 2 = 0
        THEN <<Element("pre",
                 <<escapeHtml(stripTrailingNewlines(stripLeadingNewlines(parts[i])))>>)>>
        ELSE formatInlineAndBlocks(parts[i]))
       \o ExpectedParts(parts, i + 1)

(* C25: the text is cut at every fence; counting from zero, the segments   *)
(* with an odd index, the last one included when the fences are odd in     *)
(* number, are each one pre element of escaped text and nothing else, the  *)
(* others are formatted as text; the empty text gives the empty markup     *)
C25_FencesByPosition ==
  last.op = "format" =>
    /\ IsSplitOnFence(splitFence(last.text), last.text)
    /\ last.ret = ExpectedParts(splitFence(last.text), 1)
    /\ \A i \in 1..Len(last.ret) :
         last.ret[i].tag = "pre" =>
           \A k \in 1..Len(last.ret[i].items[1]) : last.ret[i].items[1][k] \notin Tags
    /\ (last.text = <<>> => last.ret = <<>>)

C25_Witness ==
  /\ last.op = "format"
  /\ last.text = <<"a">> \o Fence \o <<LF, "c", "<", LF>> \o Fence \o <<"-", " ", "x">>
                   \o Fence \o <<"*", "*", "b", "*", "*">>
  /\ last.ret = <<Element("p", <<(<<"a">>)>>), Element("pre", <<(<<"c", "&lt;">>)>>),
                  Element("ul", <<(<<"x">>)>>), Element("pre", <<(<<"*", "*", "b", "*", "*">>)>>)>>

(* C23: upsertSession either replaces the entry that has the id of the     *)
(* shaped session where it stands, every other entry and the length of the *)
(* collection staying as they were, or, when no entry has that id, puts    *)
(* the shaped session in front of the unchanged previous entries           *)
C23_ReplaceInPlaceOrPrepend ==
  last.op = "upsertSession" =>
    IF Touched(PreAll, last.ret.id) # {}
    THEN /\ Len(PostAll) = Len(PreAll)
         /\ \A i \in 1..Len(PreAll) :
              PostAll[i] = IF PreAll[i].id = last.ret.id THEN last.ret ELSE PreAll[i]
    ELSE PostAll = <<last.ret>> \o PreAll

C23_Witness ==
  /\ last.op = "upsertSession"
  /\ \E i \in Touched(PreAll, last.ret.id) :
       /\ i >= 2
       /\ PostAll[i] = last.ret
       /\ PostAll[i] # PreAll[i]
       /\ PostAll[1] = PreAll[1]

Clamped(n, lo, hi) == IF n < lo THEN lo ELSE IF n > hi THEN hi ELSE n

NewRequests == {k \in 1..Len(requests) : k > Len(last.preRequests)}

(* C26: every request of generate carries a maxOutputTokens in 1..2048 and *)
(* a temperature in 0..1 (0..100 hundredths); each is the setting in force *)
(* when it lies in the range, the bound it is below or above otherwise, so *)
(* a maxTokens of 1..63 goes out as it is                                  *)
C26_RequestWithinLimits ==
  /\ \A k \in 1..Len(requests) :
       /\ requests[k].payload.maxOutputTokens \in 1..2048
       /\ requests[k].payload.temperature \in 0..100
  /\ last.op \in {"generate", "handleSend"} =>
       \A k \in NewRequests :
         /\ requests[k].payload.maxOutputTokens = Clamped(appSettings.maxTokens, 1, 2048)
         /\ requests[k].payload.temperature = Clamped(appSettings.temperature, 0, 100)

C26_Witness ==
  /\ last.op = "handleSend"
  /\ appSettings.maxTokens = 32
  /\ appSettings.temperature = 150
  /\ \E k \in NewRequests :
       /\ requests[k].payload.maxOutputTokens = 32
       /\ requests[k].payload.temperature = 100

SettledChat == last.op = "settle" /\ last.kind = "chat"

TurnCall == last.preCalls[last.call]

IsPrefix(a, b) == Len(a) <= Len(b) /\ SubSeq(b, 1, Len(a)) = a

(* C27: when the call of a chat turn fails, whatever the failure, its       *)
(* arrival leaves every session as it was, so no assistant message is       *)
(* added; the session of the turn still holds the messages it had when the  *)
(* turn started, the user message last among them; and no request and no    *)
(* call is issued                                                           *)
C27_FailureAddsNothing ==
  (SettledChat /\ ~last.result.ok) =>
    /\ stSessions = last.preS
    /\ requests = last.preRequests
    /\ Len(calls) = Len(last.preCalls)
    /\ \E i \in Touched(PostAll, TurnCall.sid) :
         /\ IsPrefix(TurnCall.msgs, PostAll[i].messages)
         /\ TurnCall.msgs[Len(TurnCall.msgs)].role = "user"

C27_Witness ==
  /\ SettledChat
  /\ ~last.result.ok
  /\ last.result.status = 403
  /\ \E i \in Touched(PostAll, TurnCall.sid) :
       PostAll[i].messages[Len(PostAll[i].messages)].role = "user"

(* C28: when the call of a chat turn succeeds with a text that is empty     *)
(* once trimmed, its arrival appends to the session of the turn one         *)
(* assistant message holding the fixed placeholder; no message that the     *)
(* arrival of a reply adds to a session has an empty text                   *)
C28_PlaceholderForEmptyText ==
  /\ (SettledChat /\ last.result.ok /\ trim(last.result.text) = "") =>
       \E i \in Touched(PostAll, TurnCall.sid) :
         /\ Len(PostAll[i].messages) = Len(PreAll[i].messages) + 1
         /\ IsPrefix(PreAll[i].messages, PostAll[i].messages)
         /\ PostAll[i].messages[Len(PostAll[i].messages)].role = "assistant"
         /\ PostAll[i].messages[Len(PostAll[i].messages)].text = NoTextReply
  /\ SettledChat =>
       /\ Len(PostAll) = Len(PreAll)
       /\ \A i \in 1..Len(PostAll) :
            \A k \in (Len(PreAll[i].messages) + 1)..Len(PostAll[i].messages) :
              /\ PostAll[i].messages[k].role = "assistant"
              /\ PostAll[i].messages[k].text # ""

C28_Witness ==
  /\ SettledChat
  /\ last.result.ok
  /\ last.result.text = " "
  /\ \E i \in Touched(PostAll, TurnCall.sid) :
       PostAll[i].messages[Len(PostAll[i].messages)].text = NoTextReply

(* C29: a chat call records the session that is active when its turn       *)
(* starts; when its reply arrives, the active pointer and every session     *)
(* other than that one stay as they were, that session, if it is still in   *)
(* the collection, gains the assistant message and nothing else, and if it  *)
(* is gone the collection stays as it was                                   *)
C29_ReplyGoesToTurnSession ==
  /\ (last.op = "handleSend" /\ Len(calls) > Len(last.preCalls)) =>
       calls[Len(calls)].sid = memActive
  /\ (SettledChat /\ last.result.ok) =>
       /\ stActive = last.preA
       /\ memActive = last.preM
       /\ Len(PostAll) = Len(PreAll)
       /\ \A j \in 1..Len(PreAll) :
            IF PreAll[j].id = TurnCall.sid
            THEN /\ PostAll[j].id = TurnCall.sid
                 /\ Len(PostAll[j].messages) = Len(PreAll[j].messages) + 1
                 /\ IsPrefix(PreAll[j].messages, PostAll[j].messages)
                 /\ PostAll[j].messages[Len(PostAll[j].messages)].role = "assistant"
            ELSE PostAll[j] = PreAll[j]
       /\ (Touched(PreAll, TurnCall.sid) = {} => stSessions = last.preS)

C29_Witness ==
  /\ SettledChat
  /\ last.result.ok
  /\ memActive # TurnCall.sid
  /\ \E j \in Touched(PostAll, TurnCall.sid) :
       /\ j >= 2
       /\ PostAll[j].messages[Len(PostAll[j].messages)].role = "assistant"
  /\ PostAll[1].messages = <<>>

ChatCallsOf(id) == {i \in 1..Len(calls) : calls[i].kind = "chat" /\ calls[i].sid = id}

CountRole(messages, role) ==
  Cardinality({k \in 1..Len(messages) : messages[k].role = role})

(* C30: a session of the collection holds one user message for every chat  *)
(* turn started on it and one assistant message for every one of those     *)
(* turns whose call succeeded, however the turns overlap; the arrival of a  *)
(* reply keeps the title and the messages the session had just before      *)
C30_NoMessageLost ==
  /\ \A j \in 1..Len(PostAll) :
       /\ CountRole(PostAll[j].messages, "user") = Cardinality(ChatCallsOf(PostAll[j].id))
       /\ CountRole(PostAll[j].messages, "assistant") =
            Cardinality({i \in ChatCallsOf(PostAll[j].id) : calls[i].done /\ calls[i].ok})
  /\ SettledChat =>
       \A j \in 1..Len(PostAll) :
         /\ j <= Len(PreAll)
         /\ PostAll[j].title = PreAll[j].title
         /\ IsPrefix(PreAll[j].messages, PostAll[j].messages)

C30_Witness ==
  /\ SettledChat
  /\ Len(calls) = 2
  /\ calls[1].sid = calls[2].sid
  /\ calls[1].done /\ calls[1].ok /\ calls[2].done /\ calls[2].ok
  /\ CountRole(calls[2].msgs, "assistant") = 0
  /\ \E j \in Touched(PostAll, calls[1].sid) :
       /\ CountRole(PostAll[j].messages, "user") = 2
       /\ CountRole(PostAll[j].messages, "assistant") = 2
       /\ PostAll[j].title = TitleOf(2)

(* C31: whenever no key test is in flight, the key in memory, which the    *)
(* generation calls use, is the key in storage                             *)
C31_KeyMatchesStored ==
  InFlight({"test"}) = {} => apiKey = storedKey

OrchestratorOps ==
  {"constructor", "createAndActivateSession", "setActiveSession", "deleteSessionHandler",
   "clearAllSessions"}

(* C32: after the constructor, a new session, the selection of a session,  *)
(* the deletion of a session and the clearing of all sessions, the active  *)
(* id in memory is the persisted active id and is the id of a session of   *)
(* the persisted collection                                                *)
C32_ActivePointerValid ==
  last.op \in OrchestratorOps =>
    /\ memActive = stActive
    /\ Touched(PostAll, memActive) # {}

====
